---- MODULE Spec2Model ----
(***************************************************************************)
(* Model of the two-pass Hack assembler in src/src/main.rs.                *)
(*                                                                         *)
(* Text (a source line, a symbol name, an output line) is a sequence of    *)
(* one-character strings, so that splitting, trimming and formatting are   *)
(* computed the way the Rust code computes them.                           *)
(***************************************************************************)
EXTENDS Integers, Sequences, FiniteSets, TLC

\* ------------------------------------------------------------------------
\* Bounds of the model
\* ------------------------------------------------------------------------
\* number of raw source lines read in one run
MaxLines == 3
\* number of raw lines read before the compute instruction (SpecEnc)
MaxEncPrefix == 1

\* u16::MAX + 1, the width of every address in the program
U16 == 65536

\* ------------------------------------------------------------------------
\* Result / Option values
\* ------------------------------------------------------------------------
Ok(v) == [ok |-> TRUE, val |-> v]
Err(e) == [ok |-> FALSE, val |-> e]
Some(v) == [some |-> TRUE, val |-> v]
None == [some |-> FALSE, val |-> 0]

\* ------------------------------------------------------------------------
\* str helpers used by the parser
\* ------------------------------------------------------------------------
\* char::is_whitespace, on the characters the model uses
IsWhitespace(c) == c \in {" ", "\t"}

RECURSIVE TrimStart(_)
TrimStart(s) ==
    IF s = <<>> THEN <<>>
    ELSE IF IsWhitespace(Head(s)) THEN TrimStart(Tail(s))
    ELSE s

RECURSIVE TrimEnd(_)
TrimEnd(s) ==
    IF s = <<>> THEN <<>>
    ELSE IF IsWhitespace(s[Len(s)]) THEN TrimEnd(SubSeq(s, 1, Len(s) - 1))
    ELSE s

\* str::trim
Trim(s) == TrimEnd(TrimStart(s))

\* str::starts_with
StartsWith(s, p) == Len(s) >= Len(p) /\ SubSeq(s, 1, Len(p)) = p

\* s.split("//").next().unwrap_or(s): the text before the first "//"
RECURSIVE BeforeComment(_)
BeforeComment(s) ==
    IF s = <<>> THEN <<>>
    ELSE IF StartsWith(s, <<"/", "/">>) THEN <<>>
    ELSE <<Head(s)>> \o BeforeComment(Tail(s))

\* str::split(c).collect_vec(): the pieces between occurrences of c
RECURSIVE SplitAcc(_, _, _)
SplitAcc(s, c, cur) ==
    IF s = <<>> THEN <<cur>>
    ELSE IF Head(s) = c THEN <<cur>> \o SplitAcc(Tail(s), c, <<>>)
    ELSE SplitAcc(Tail(s), c, Append(cur, Head(s)))

Split(s, c) == SplitAcc(s, c, <<>>)

\* str::trim_start_matches(c): strips every leading c
RECURSIVE TrimStartMatches(_, _)
TrimStartMatches(s, c) ==
    IF s # <<>> /\ Head(s) = c THEN TrimStartMatches(Tail(s), c) ELSE s

\* str::trim_end_matches(c): strips every trailing c
RECURSIVE TrimEndMatches(_, _)
TrimEndMatches(s, c) ==
    IF s # <<>> /\ s[Len(s)] = c
    THEN TrimEndMatches(SubSeq(s, 1, Len(s) - 1), c)
    ELSE s

Digits == <<"0", "1", "2", "3", "4", "5", "6", "7", "8", "9">>

IsDigit(c) == \E d \in 1..10 : Digits[d] = c

DigitValue(c) == (CHOOSE d \in 1..10 : Digits[d] = c) - 1

\* checked accumulation of decimal digits into a u16
RECURSIVE ParseDigits(_, _)
ParseDigits(s, acc) ==
    IF s = <<>> THEN Ok(acc)
    ELSE IF ~IsDigit(Head(s)) THEN Err("InvalidDigit")
    ELSE IF acc * 10 + DigitValue(Head(s)) >= U16 THEN Err("PosOverflow")
    ELSE ParseDigits(Tail(s), acc * 10 + DigitValue(Head(s)))

\* value.parse::<u16>(): an optional '+', then one or more decimal digits,
\* the value at most u16::MAX
ParseU16(s) ==
    LET body == IF s # <<>> /\ Head(s) = "+" THEN Tail(s) ELSE s
    IN  IF body = <<>> THEN Err("Empty") ELSE ParseDigits(body, 0)

\* ------------------------------------------------------------------------
\* Predefined symbols and the instruction enums
\* ------------------------------------------------------------------------
PREDEFINED_SYMBOLS ==
    <<<<<<"S", "P">>, 0>>,
      <<<<"L", "C", "L">>, 1>>,
      <<<<"A", "R", "G">>, 2>>,
      <<<<"T", "H", "I", "S">>, 3>>,
      <<<<"T", "H", "A", "T">>, 4>>,
      <<<<"R", "0">>, 0>>,
      <<<<"R", "1">>, 1>>,
      <<<<"R", "2">>, 2>>,
      <<<<"R", "3">>, 3>>,
      <<<<"R", "4">>, 4>>,
      <<<<"R", "5">>, 5>>,
      <<<<"R", "6">>, 6>>,
      <<<<"R", "7">>, 7>>,
      <<<<"R", "8">>, 8>>,
      <<<<"R", "9">>, 9>>,
      <<<<"R", "1", "0">>, 10>>,
      <<<<"R", "1", "1">>, 11>>,
      <<<<"R", "1", "2">>, 12>>,
      <<<<"R", "1", "3">>, 13>>,
      <<<<"R", "1", "4">>, 14>>,
      <<<<"R", "1", "5">>, 15>>,
      <<<<"S", "C", "R", "E", "E", "N">>, 16384>>,
      <<<<"K", "B", "D">>, 24576>>>>

\* enum Destination, in declaration order (discriminants 0..7)
Destination == <<"Null", "M", "D", "MD", "A", "AM", "AD", "AMD">>

\* enum Jump, in declaration order (discriminants 0..7)
Jump == <<"Null", "JGT", "JEQ", "JGE", "JLT", "JNE", "JLE", "JMP">>

\* enum AM, in declaration order (discriminants 0..1)
AM == <<"A", "M">>

\* `*self as u8`: the position of variant v in the enum's declaration
Discriminant(enum, v) == (CHOOSE k \in 1..Len(enum) : enum[k] = v) - 1

\* the binary digits of n without padding ("{:b}")
RECURSIVE BinaryDigits(_)
BinaryDigits(n) ==
    IF n < 2 THEN <<Digits[n + 1]>>
    ELSE BinaryDigits(n \div 2) \o <<Digits[(n % 2) + 1]>>

RECURSIVE Zeros(_)
Zeros(k) == IF k <= 0 THEN <<>> ELSE <<"0">> \o Zeros(k - 1)

\* FormatBinary with the zero padding forgotten ("{:b}")
FormatBinaryUnpadded(n, w) == BinaryDigits(n)

\* "{:0wb}": binary digits, left-padded with zeros to at least w characters
FormatBinary(n, w) == Zeros(w - Len(BinaryDigits(n))) \o BinaryDigits(n)

\* derived FromStr of Destination: the text must be a variant's name
DestinationFromStr(s) ==
    CASE s = <<"N", "u", "l", "l">> -> Ok("Null")
      [] s = <<"M">> -> Ok("M")
      [] s = <<"D">> -> Ok("D")
      [] s = <<"M", "D">> -> Ok("MD")
      [] s = <<"A">> -> Ok("A")
      [] s = <<"A", "M">> -> Ok("AM")
      [] s = <<"A", "D">> -> Ok("AD")
      [] s = <<"A", "M", "D">> -> Ok("AMD")
      [] OTHER -> Err("parse error")

\* derived FromStr of Jump: the text must be a variant's name
JumpFromStr(s) ==
    CASE s = <<"N", "u", "l", "l">> -> Ok("Null")
      [] s = <<"J", "G", "T">> -> Ok("JGT")
      [] s = <<"J", "E", "Q">> -> Ok("JEQ")
      [] s = <<"J", "G", "E">> -> Ok("JGE")
      [] s = <<"J", "L", "T">> -> Ok("JLT")
      [] s = <<"J", "N", "E">> -> Ok("JNE")
      [] s = <<"J", "L", "E">> -> Ok("JLE")
      [] s = <<"J", "M", "P">> -> Ok("JMP")
      [] OTHER -> Err("parse error")

\* impl FromStr for Computation; a Computation is <<variant>> or
\* <<variant, operand>> with operand in AM
ComputationFromStr(s) ==
    CASE s = <<"0">> -> Ok(<<"Zero">>)
      [] s = <<"1">> -> Ok(<<"One">>)
      [] s = <<"-", "1">> -> Ok(<<"Neg1">>)
      [] s = <<"D">> -> Ok(<<"D">>)
      [] s = <<"A">> -> Ok(<<"X", "A">>)
      [] s = <<"M">> -> Ok(<<"X", "M">>)
      [] s = <<"!", "D">> -> Ok(<<"NotD">>)
      [] s = <<"!", "A">> -> Ok(<<"NotX", "A">>)
      [] s = <<"!", "M">> -> Ok(<<"NotX", "M">>)
      [] s = <<"-", "D">> -> Ok(<<"NegD">>)
      [] s = <<"-", "A">> -> Ok(<<"NegX", "A">>)
      [] s = <<"-", "M">> -> Ok(<<"NegX", "M">>)
      [] s = <<"D", "+", "1">> -> Ok(<<"DPlusOne">>)
      [] s = <<"A", "+", "1">> -> Ok(<<"XPlusOne", "A">>)
      [] s = <<"M", "+", "1">> -> Ok(<<"XPlusOne", "M">>)
      [] s = <<"D", "-", "1">> -> Ok(<<"DMinusOne">>)
      [] s = <<"A", "-", "1">> -> Ok(<<"XMinusOne", "A">>)
      [] s = <<"M", "-", "1">> -> Ok(<<"XMinusOne", "M">>)
      [] s = <<"D", "+", "A">> -> Ok(<<"DPlusX", "A">>)
      [] s = <<"D", "+", "M">> -> Ok(<<"DPlusX", "M">>)
      [] s = <<"D", "-", "A">> -> Ok(<<"DMinusX", "A">>)
      [] s = <<"D", "-", "M">> -> Ok(<<"DMinusX", "M">>)
      [] s = <<"A", "-", "D">> -> Ok(<<"XMinusD", "A">>)
      [] s = <<"M", "-", "D">> -> Ok(<<"XMinusD", "M">>)
      [] s = <<"D", "&", "A">> -> Ok(<<"DAndX", "A">>)
      [] s = <<"D", "&", "M">> -> Ok(<<"DAndX", "M">>)
      [] s = <<"D", "|", "A">> -> Ok(<<"DOrX", "A">>)
      [] s = <<"D", "|", "M">> -> Ok(<<"DOrX", "M">>)
      [] OTHER -> Err("Invalid comp")

\* impl Assemble for Destination
DestinationAssemble(d) == FormatBinary(Discriminant(Destination, d), 3)

\* impl Assemble for Jump
JumpAssemble(j) == FormatBinary(Discriminant(Jump, j), 3)

\* impl Assemble for AM
AMAssemble(x) == BinaryDigits(Discriminant(AM, x))

\* the six function bits written by Computation::assemble
ComputationFunction(c) ==
    CASE c[1] = "Zero" -> <<"1", "0", "1", "0", "1", "0">>
      [] c[1] = "One" -> <<"1", "1", "1", "1", "1", "1">>
      [] c[1] = "Neg1" -> <<"1", "1", "1", "0", "1", "0">>
      [] c[1] = "D" -> <<"0", "0", "1", "1", "0", "0">>
      [] c[1] = "X" -> <<"1", "1", "0", "0", "0", "0">>
      [] c[1] = "NegD" -> <<"0", "0", "1", "1", "1", "1">>
      [] c[1] = "NegX" -> <<"1", "1", "0", "0", "1", "1">>
      [] c[1] = "DPlusOne" -> <<"0", "1", "1", "1", "1", "1">>
      [] c[1] = "XPlusOne" -> <<"1", "1", "0", "1", "1", "1">>
      [] c[1] = "DMinusOne" -> <<"0", "0", "1", "1", "1", "0">>
      [] c[1] = "XMinusOne" -> <<"1", "1", "0", "0", "1", "0">>
      [] c[1] = "DPlusX" -> <<"0", "0", "0", "0", "1", "0">>
      [] c[1] = "DMinusX" -> <<"0", "1", "0", "0", "1", "1">>
      [] c[1] = "XMinusD" -> <<"0", "0", "0", "1", "1", "1">>
      [] c[1] = "NotD" -> <<"0", "0", "1", "1", "0", "1">>
      [] c[1] = "NotX" -> <<"1", "1", "0", "0", "0", "1">>
      [] c[1] = "DAndX" -> <<"0", "0", "0", "0", "0", "0">>
      [] c[1] = "DOrX" -> <<"0", "1", "0", "1", "0", "1">>

\* ComputationAssemble with the operand selector always written as 0
ComputationAssembleNoSelector(c) == <<"0">> \o ComputationFunction(c)

\* impl Assemble for Computation: the operand selector, then the function
ComputationAssemble(c) ==
    (IF Len(c) = 2 THEN AMAssemble(c[2]) ELSE <<"0">>) \o ComputationFunction(c)

\* ------------------------------------------------------------------------
\* HackLine
\* ------------------------------------------------------------------------
Label(name) == [kind |-> "Label", name |-> name]
AImmediate(imm) == [kind |-> "AImmediate", imm |-> imm]
ALocation(name) == [kind |-> "ALocation", name |-> name]
C(comp, dest, jump) == [kind |-> "C", comp |-> comp, dest |-> dest, jump |-> jump]

\* the C-instruction branch of HackLine::from_str
CFromStr(s) ==
    LET eq == Split(s, "=")
        dest == IF Len(eq) = 1 THEN Ok("Null")
                ELSE IF Len(eq) = 2 THEN DestinationFromStr(eq[1])
                ELSE Err("more than one equal sign in instruction")
        rest == IF Len(eq) = 1 THEN eq[1] ELSE eq[2]
        sc == Split(rest, ";")
        jump == IF Len(sc) = 1 THEN Ok("Null")
                ELSE IF Len(sc) = 2 THEN JumpFromStr(sc[2])
                ELSE Err("more than one ; in instruction")
        comp == ComputationFromStr(sc[1])
    IN  IF ~dest.ok THEN dest
        ELSE IF ~jump.ok THEN jump
        ELSE IF ~comp.ok THEN comp
        ELSE Ok(C(comp.val, dest.val, jump.val))

\* impl FromStr for HackLine
HackLineFromStr(raw) ==
    LET s == Trim(BeforeComment(raw))
    IN  IF StartsWith(s, <<"(">>)
        THEN Ok(Label(TrimEndMatches(TrimStartMatches(s, "("), ")")))
        ELSE IF StartsWith(s, <<"@">>)
        THEN LET value == TrimStartMatches(s, "@")
                 imm == ParseU16(value)
             IN  IF imm.ok THEN Ok(AImmediate(imm.val))
                 ELSE Ok(ALocation(value))
        ELSE CFromStr(s)

\* the filter of the driver: comment lines and empty lines are dropped
\* before parsing
Kept(raw) == ~StartsWith(Trim(raw), <<"/", "/">>) /\ raw # <<>>

\* ------------------------------------------------------------------------
\* Source lines the runs are drawn from
\* ------------------------------------------------------------------------
\* @a  @b  @L  (L)  @2  @32768  "D=A //c"  D==A  ""  " "  //c  0;JMP
\* @KBD  D;JXX
LinePool ==
    {<<"@", "a">>,
     <<"@", "b">>,
     <<"@", "L">>,
     <<"(", "L", ")">>,
     <<"@", "2">>,
     <<"@", "3", "2", "7", "6", "8">>,
     <<"D", "=", "A", " ", "/", "/", "c">>,
     <<"D", "=", "=", "A">>,
     <<>>,
     <<" ">>,
     <<"/", "/", "c">>,
     <<"0", ";", "J", "M", "P">>,
     <<"@", "K", "B", "D">>,
     <<"D", ";", "J", "X", "X">>}

\* the lines that may precede the compute instruction in SpecEnc:
\* @a  (L)  @L  //c  D=;JMP
PrefixPool ==
    {<<"@", "a">>,
     <<"(", "L", ")">>,
     <<"@", "L">>,
     <<"/", "/", "c">>,
     <<"D", "=", ";", "J", "M", "P">>}

\* ------------------------------------------------------------------------
\* SymbolTable
\* ------------------------------------------------------------------------
\* HashMap::insert
Insert(m, key, v) ==
    [k \in (DOMAIN m) \cup {key} |-> IF k = key THEN v ELSE m[k]]

\* HashMap::new()
EmptyMap == [k \in {} |-> 0]

\* HashMap::from(PREDEFINED_SYMBOLS)
PredefinedMap ==
    LET pairs == {PREDEFINED_SYMBOLS[k] : k \in 1..Len(PREDEFINED_SYMBOLS)}
    IN  [n \in {p[1] : p \in pairs} |-> (CHOOSE p \in pairs : p[1] = n)[2]]

\* NewStep with the counter advanced by Label lines too
NewStepCountsLabels(lbls, length, line) ==
    [labels |-> IF line.kind = "Label" THEN Insert(lbls, line.name, length) ELSE lbls,
     program_length |-> (length + 1) % U16]

\* one iteration of the loop of SymbolTable::new
NewStep(lbls, length, line) ==
    IF line.kind = "Label"
    THEN [labels |-> Insert(lbls, line.name, length), program_length |-> length]
    ELSE [labels |-> lbls, program_length |-> (length + 1) % U16]

\* label that only knows the predefined symbols
labelPredefinedOnly(lbls, key) ==
    IF key \in DOMAIN PredefinedMap THEN Some(PredefinedMap[key]) ELSE None

\* SymbolTable::label
label(lbls, key) == IF key \in DOMAIN lbls THEN Some(lbls[key]) ELSE None

\* variable returning the allocator's value instead of the entry's
variableFresh(vars, address, key) ==
    [ret |-> address,
     variables |-> IF key \in DOMAIN vars THEN vars ELSE Insert(vars, key, address),
     variable_address |-> (address + 1) % U16]

\* variable with insert() in place of entry().or_insert()
variableOverwrite(vars, address, key) ==
    [ret |-> address,
     variables |-> Insert(vars, key, address),
     variable_address |-> (address + 1) % U16]

\* SymbolTable::variable: entry(key).or_insert(variable_address), then the
\* allocator is advanced (wrapping at the width of u16), then the entry's
\* value is returned
variable(vars, address, key) ==
    LET inserted == IF key \in DOMAIN vars THEN vars ELSE Insert(vars, key, address)
    IN  [ret |-> inserted[key],
         variables |-> inserted,
         variable_address |-> (address + 1) % U16]

\* impl Assemble for HackLine: the lines written and the table afterwards
HackLineAssemble(line, lbls, vars, address) ==
    LET same == [variables |-> vars, variable_address |-> address]
    IN  CASE line.kind = "Label" ->
               [out |-> <<>>] @@ same
          [] line.kind = "AImmediate" ->
               [out |-> <<FormatBinary(line.imm, 16)>>] @@ same
          [] line.kind = "ALocation" ->
               LET found == label(lbls, line.name)
                   alloc == variable(vars, address, line.name)
               IN  IF found.some
                   THEN [out |-> <<FormatBinary(found.val, 16)>>] @@ same
                   ELSE [out |-> <<FormatBinary(alloc.ret, 16)>>,
                         variables |-> alloc.variables,
                         variable_address |-> alloc.variable_address]
          [] line.kind = "C" ->
               [out |-> <<(<<"1", "1", "1">> \o ComputationAssemble(line.comp)
                           \o DestinationAssemble(line.dest)
                           \o JumpAssemble(line.jump))>>] @@ same

\* ------------------------------------------------------------------------
\* The run of assemble() as a state machine
\* ------------------------------------------------------------------------
VARIABLES
    pc,                \* "read", "pass1", "pass2", "done", "error"
    input,             \* the raw lines read from the input so far
    lines,             \* Vec<HackLine>: the parsed lines collected so far
    labels,            \* SymbolTable.labels
    program_length,    \* the counter of SymbolTable::new
    variables,         \* SymbolTable.variables
    variable_address,  \* SymbolTable.variable_address
    idx,               \* position of the current pass in lines
    output             \* the lines written to the output writer

vars == <<pc, input, lines, labels, program_length, variables,
          variable_address, idx, output>>

Init ==
    /\ pc = "read"
    /\ input = <<>>
    /\ lines = <<>>
    /\ labels = EmptyMap
    /\ program_length = 0
    /\ variables = EmptyMap
    /\ variable_address = 0
    /\ idx = 1
    /\ output = <<>>

\* ReadLine with lines that fail to parse dropped instead of ending the run
ReadLineSkipErrors(pool, limit) ==
    /\ pc = "read"
    /\ Len(input) < limit
    /\ \E raw \in pool :
         /\ input' = Append(input, raw)
         /\ lines' = IF Kept(raw) /\ HackLineFromStr(raw).ok
                     THEN Append(lines, HackLineFromStr(raw).val)
                     ELSE lines
    /\ UNCHANGED <<pc, labels, program_length, variables, variable_address, idx, output>>

\* one item of input.lines(): filtered out, or parsed and collected, or the
\* first parse error, which ends the run
ReadLine(pool, limit) ==
    /\ pc = "read"
    /\ Len(input) < limit
    /\ \E raw \in pool :
         /\ input' = Append(input, raw)
         /\ IF ~Kept(raw)
            THEN UNCHANGED <<pc, lines>>
            ELSE LET parsed == HackLineFromStr(raw)
                 IN  IF parsed.ok
                     THEN /\ lines' = Append(lines, parsed.val)
                          /\ UNCHANGED pc
                     ELSE /\ pc' = "error"
                          /\ UNCHANGED lines
    /\ UNCHANGED <<labels, program_length, variables, variable_address, idx, output>>

\* end of input: every line parsed; SymbolTable::new starts from the
\* predefined symbols and a zero counter
EndOfInput ==
    /\ pc = "read"
    /\ pc' = "pass1"
    /\ labels' = PredefinedMap
    /\ program_length' = 0
    /\ idx' = 1
    /\ UNCHANGED <<input, lines, variables, variable_address, output>>

\* first pass, one line
NewLoop ==
    /\ pc = "pass1"
    /\ idx <= Len(lines)
    /\ LET r == NewStep(labels, program_length, lines[idx])
       IN  /\ labels' = r.labels
           /\ program_length' = r.program_length
    /\ idx' = idx + 1
    /\ UNCHANGED <<pc, input, lines, variables, variable_address, output>>

\* SymbolTable::new returns: no variables, the allocator at 16
NewReturn ==
    /\ pc = "pass1"
    /\ idx > Len(lines)
    /\ pc' = "pass2"
    /\ variables' = EmptyMap
    /\ variable_address' = 16
    /\ idx' = 1
    /\ UNCHANGED <<input, lines, labels, program_length, output>>

\* second pass, one line
AssembleLine ==
    /\ pc = "pass2"
    /\ idx <= Len(lines)
    /\ LET r == HackLineAssemble(lines[idx], labels, variables, variable_address)
       IN  /\ output' = output \o r.out
           /\ variables' = r.variables
           /\ variable_address' = r.variable_address
    /\ idx' = idx + 1
    /\ UNCHANGED <<pc, input, lines, labels, program_length>>

\* assemble returns Ok(())
Return ==
    /\ pc = "pass2"
    /\ idx > Len(lines)
    /\ pc' = "done"
    /\ UNCHANGED <<input, lines, labels, program_length, variables,
                   variable_address, idx, output>>

Next ==
    \/ ReadLine(LinePool, MaxLines)
    \/ EndOfInput
    \/ NewLoop
    \/ NewReturn
    \/ AssembleLine
    \/ Return

Spec == Init /\ [][Next]_vars

\* ------------------------------------------------------------------------
\* SpecEnc: runs that end with one compute instruction, every combination
\* of destination, computation and jump mnemonic
\* ------------------------------------------------------------------------
DestMnemonics == {<<>>, <<"M">>, <<"D">>, <<"M", "D">>, <<"A">>, <<"A", "M">>, <<"A", "D">>, <<"A", "M", "D">>}

JumpMnemonics == {<<>>, <<"J", "G", "T">>,
                  <<"J", "E", "Q">>,
                  <<"J", "G", "E">>,
                  <<"J", "L", "T">>,
                  <<"J", "N", "E">>,
                  <<"J", "L", "E">>,
                  <<"J", "M", "P">>}

CompMnemonics ==
    {<<"0">>,
     <<"1">>,
     <<"-", "1">>,
     <<"D">>,
     <<"A">>,
     <<"M">>,
     <<"!", "D">>,
     <<"!", "A">>,
     <<"!", "M">>,
     <<"-", "D">>,
     <<"-", "A">>,
     <<"-", "M">>,
     <<"D", "+", "1">>,
     <<"A", "+", "1">>,
     <<"M", "+", "1">>,
     <<"D", "-", "1">>,
     <<"A", "-", "1">>,
     <<"M", "-", "1">>,
     <<"D", "+", "A">>,
     <<"D", "+", "M">>,
     <<"D", "-", "A">>,
     <<"D", "-", "M">>,
     <<"A", "-", "D">>,
     <<"M", "-", "D">>,
     <<"D", "&", "A">>,
     <<"D", "&", "M">>,
     <<"D", "|", "A">>,
     <<"D", "|", "M">>}

\* the text "dest=comp;jump", an absent dest or jump leaving its separator out
CLine(d, c, j) ==
    (IF d = <<>> THEN <<>> ELSE d \o <<"=">>) \o c
        \o (IF j = <<>> THEN <<>> ELSE <<";">> \o j)

CInstrPool ==
    {CLine(d, c, j) : d \in DestMnemonics, c \in CompMnemonics, j \in JumpMnemonics}

\* prefix lines first, then one compute instruction, then the end of input
EncPool ==
    IF input # <<>> /\ input[Len(input)] \in CInstrPool THEN {}
    ELSE IF Len(input) < MaxEncPrefix THEN PrefixPool \cup CInstrPool
    ELSE CInstrPool

NextEnc ==
    \/ ReadLine(EncPool, MaxEncPrefix + 1)
    \/ EndOfInput
    \/ NewLoop
    \/ NewReturn
    \/ AssembleLine
    \/ Return

SpecEnc == Init /\ [][NextEnc]_vars

\* ------------------------------------------------------------------------
\* Vocabulary of the properties
\* ------------------------------------------------------------------------
\* number of lines among ls[1..k] that are not Label lines
RECURSIVE NonLabelCount(_, _)
NonLabelCount(ls, k) ==
    IF k <= 0 THEN 0
    ELSE NonLabelCount(ls, k - 1) + (IF ls[k].kind = "Label" THEN 0 ELSE 1)

\* the number a line of binary digits denotes
RECURSIVE BitsValue(_)
BitsValue(s) ==
    IF s = <<>> THEN 0
    ELSE 2 * BitsValue(SubSeq(s, 1, Len(s) - 1)) + (IF s[Len(s)] = "1" THEN 1 ELSE 0)

\* the second pass has started: the symbol table is built
Resolving == pc \in {"pass2", "done"}

\* the lines of the source the second pass has encoded so far
Encoded == IF Resolving THEN 1..(idx - 1) ELSE {}

\* the output line written for the non-label line at position j
OutputOf(j) == output[NonLabelCount(lines, j)]

\* positions of the Label lines declaring name n
Declarations(n) ==
    {k \in 1..Len(lines) : lines[k].kind = "Label" /\ lines[k].name = n}

LastDeclaration(n) ==
    CHOOSE k \in Declarations(n) : \A m \in Declarations(n) : m <= k

\* the names the second pass has allocated as variables, in order of first
\* reference: the names of encoded symbolic references that no label entry covers
RECURSIVE FirstReferences(_)
FirstReferences(k) ==
    IF k <= 0 THEN <<>>
    ELSE LET before == FirstReferences(k - 1)
             l == lines[k]
         IN  IF /\ l.kind = "ALocation"
                /\ l.name \notin DOMAIN labels
                /\ \A m \in 1..Len(before) : before[m] # l.name
             THEN Append(before, l.name)
             ELSE before

\* a raw line that holds nothing but whitespace and a comment
Ignorable(raw) == Trim(BeforeComment(raw)) = <<>>

\* ------------------------------------------------------------------------
\* C1
\* ------------------------------------------------------------------------
\* C1: in pass 2 the Nth distinct new variable name, in order of first
\* reference, holds address 16 + N - 1, however often earlier names were
\* referenced again before it.
C1_NthVariableAddress ==
    Resolving =>
        LET refs == FirstReferences(idx - 1)
        IN  \A n \in 1..Len(refs) :
                /\ refs[n] \in DOMAIN variables
                /\ variables[refs[n]] = 16 + n - 1

\* ------------------------------------------------------------------------
\* C2
\* ------------------------------------------------------------------------
\* C2 as stated: after pass 1 every Label declaration's name resolves to the
\* number of non-label instructions preceding that declaration.
C2_EveryDeclaration ==
    Resolving =>
        \A k \in 1..Len(lines) :
            lines[k].kind = "Label" =>
                /\ lines[k].name \in DOMAIN labels
                /\ labels[lines[k].name] = NonLabelCount(lines, k - 1)

\* C2 amended: after pass 1 every declared label name resolves to the number
\* of non-label instructions preceding its last declaration, and during pass 1
\* the counter equals the number of non-label instructions processed.
C2_LastDeclaration ==
    /\ pc = "pass1" => program_length = NonLabelCount(lines, idx - 1)
    /\ Resolving =>
         /\ program_length = NonLabelCount(lines, Len(lines))
         /\ \A k \in 1..Len(lines) :
              lines[k].kind = "Label" =>
                /\ lines[k].name \in DOMAIN labels
                /\ labels[lines[k].name] =
                     NonLabelCount(lines, LastDeclaration(lines[k].name) - 1)

\* a label declared twice, at different instruction addresses, after pass 1
C2_Witness ==
    /\ Resolving
    /\ \E j, k \in 1..Len(lines) :
         /\ j < k
         /\ lines[j].kind = "Label"
         /\ lines[k].kind = "Label"
         /\ lines[j].name = lines[k].name
         /\ NonLabelCount(lines, j - 1) < NonLabelCount(lines, k - 1)

\* ------------------------------------------------------------------------
\* C3
\* ------------------------------------------------------------------------
\* C3: an encoded reference @name whose name is declared as a label anywhere
\* in the source carries that label's instruction address and allocates no
\* variable; a name with a label entry never becomes a variable; a name with
\* no label entry becomes a variable; the allocator moves only for references
\* that have no label entry.
C3_LabelBeforeVariable ==
    Resolving =>
        /\ \A j \in Encoded :
             lines[j].kind = "ALocation" =>
                LET n == lines[j].name
                IN  IF Declarations(n) # {}
                    THEN /\ BitsValue(OutputOf(j)) =
                              NonLabelCount(lines, LastDeclaration(n) - 1)
                         /\ n \notin DOMAIN variables
                    ELSE IF n \in DOMAIN labels
                    THEN n \notin DOMAIN variables
                    ELSE n \in DOMAIN variables
        /\ variable_address =
             16 + Cardinality({j \in Encoded : /\ lines[j].kind = "ALocation"
                                                /\ lines[j].name \notin DOMAIN labels})

\* a reference to a label that is declared after it has been encoded, next
\* to a reference that was allocated as a variable
C3_Witness ==
    /\ pc = "done"
    /\ variables # EmptyMap
    /\ \E j, k \in 1..Len(lines) :
         /\ j < k
         /\ lines[j].kind = "ALocation"
         /\ lines[k].kind = "Label"
         /\ lines[j].name = lines[k].name
         /\ NonLabelCount(lines, k - 1) > 0

\* ------------------------------------------------------------------------
\* C4
\* ------------------------------------------------------------------------
\* C4: within one run, all encoded occurrences of the same symbolic name
\* carry the same address.
C4_SameNameSameAddress ==
    \A j, k \in Encoded :
        (/\ lines[j].kind = "ALocation"
         /\ lines[k].kind = "ALocation"
         /\ lines[j].name = lines[k].name)
            => OutputOf(j) = OutputOf(k)

\* a variable referenced, another variable allocated, the first referenced again
C4_Witness ==
    /\ pc = "done"
    /\ \E i, j, k \in 1..Len(lines) :
         /\ i < j /\ j < k
         /\ lines[i].kind = "ALocation"
         /\ lines[j].kind = "ALocation"
         /\ lines[k].kind = "ALocation"
         /\ lines[i].name = lines[k].name
         /\ lines[i].name # lines[j].name
         /\ {lines[i].name, lines[j].name} \subseteq DOMAIN variables

\* ------------------------------------------------------------------------
\* C5
\* ------------------------------------------------------------------------
\* source lines that must fail to parse: D==A (two equal signs) and D;JXX
\* (an unknown jump mnemonic)
Malformed == {<<"D", "=", "=", "A">>, <<"D", ";", "J", "X", "X">>}

\* C5: nothing is written before the whole source has parsed; a source that
\* holds a malformed line, at any position, ends in an error with nothing
\* written.
C5_NoOutputOnParseError ==
    /\ pc \in {"read", "pass1", "error"} => output = <<>>
    /\ (\E k \in 1..Len(input) : input[k] \in Malformed)
          => pc = "error" /\ output = <<>>

\* the run has failed on a line that follows successfully parsed instructions
C5_Witness ==
    /\ pc = "error"
    /\ Len(lines) >= 2
    /\ input[Len(input)] \in Malformed
    /\ output = <<>>

\* ------------------------------------------------------------------------
\* C6
\* ------------------------------------------------------------------------
\* C6: blank lines (empty or only whitespace), whole-line comments and lines
\* holding only a comment are not parse errors and contribute no instruction:
\* the run never fails on such a line, and the parsed instructions are as many
\* as the other lines read.
C6_BlankLinesIgnored ==
    /\ pc = "error" => ~Ignorable(input[Len(input)])
    /\ pc # "error" =>
         Len(lines) = Cardinality({k \in 1..Len(input) : ~Ignorable(input[k])})

\* ------------------------------------------------------------------------
\* C7
\* ------------------------------------------------------------------------
\* C7: the output holds one line of exactly 16 characters 0/1 per encoded
\* non-label instruction, in source order, Label lines adding nothing; the
\* line of an immediate denotes its value, the line of a symbolic reference
\* denotes its resolved address, the line of a compute instruction starts 111.
C7_OneLinePerInstruction ==
    /\ ~Resolving => output = <<>>
    /\ Resolving =>
         /\ Len(output) = NonLabelCount(lines, idx - 1)
         /\ \A i \in 1..Len(output) :
              /\ Len(output[i]) = 16
              /\ \A b \in 1..16 : output[i][b] \in {"0", "1"}
         /\ \A j \in Encoded :
              CASE lines[j].kind = "Label" -> TRUE
                [] lines[j].kind = "AImmediate" ->
                     BitsValue(OutputOf(j)) = lines[j].imm
                [] lines[j].kind = "ALocation" ->
                     BitsValue(OutputOf(j)) =
                        IF lines[j].name \in DOMAIN labels
                        THEN labels[lines[j].name]
                        ELSE variables[lines[j].name]
                [] lines[j].kind = "C" ->
                     SubSeq(OutputOf(j), 1, 3) = <<"1", "1", "1">>
    /\ pc = "done" => Len(output) = NonLabelCount(lines, Len(lines))

\* a finished run over a Label line and two instructions of different kinds
C7_Witness ==
    /\ pc = "done"
    /\ Len(output) = 2
    /\ \E i, j, k \in 1..Len(lines) :
         /\ lines[i].kind = "Label"
         /\ lines[j].kind = "C"
         /\ lines[k].kind \in {"AImmediate", "ALocation"}

\* ------------------------------------------------------------------------
\* C8
\* ------------------------------------------------------------------------
\* C8: every immediate that reaches the encoder lies in 0..32767, and every
\* emitted A-instruction line has leading bit 0.
C8_ImmediateInRange ==
    /\ \A k \in 1..Len(lines) :
         lines[k].kind = "AImmediate" => lines[k].imm \in 0..32767
    /\ \A j \in Encoded :
         lines[j].kind \in {"AImmediate", "ALocation"} => OutputOf(j)[1] = "0"

\* ------------------------------------------------------------------------
\* C9
\* ------------------------------------------------------------------------
\* the tables of the specification, by mnemonic
TableComp(m) ==
    CASE m = <<"0">> -> <<"0", "1", "0", "1", "0", "1", "0">>
      [] m = <<"1">> -> <<"0", "1", "1", "1", "1", "1", "1">>
      [] m = <<"-", "1">> -> <<"0", "1", "1", "1", "0", "1", "0">>
      [] m = <<"D">> -> <<"0", "0", "0", "1", "1", "0", "0">>
      [] m = <<"A">> -> <<"0", "1", "1", "0", "0", "0", "0">>
      [] m = <<"M">> -> <<"1", "1", "1", "0", "0", "0", "0">>
      [] m = <<"!", "D">> -> <<"0", "0", "0", "1", "1", "0", "1">>
      [] m = <<"!", "A">> -> <<"0", "1", "1", "0", "0", "0", "1">>
      [] m = <<"!", "M">> -> <<"1", "1", "1", "0", "0", "0", "1">>
      [] m = <<"-", "D">> -> <<"0", "0", "0", "1", "1", "1", "1">>
      [] m = <<"-", "A">> -> <<"0", "1", "1", "0", "0", "1", "1">>
      [] m = <<"-", "M">> -> <<"1", "1", "1", "0", "0", "1", "1">>
      [] m = <<"D", "+", "1">> -> <<"0", "0", "1", "1", "1", "1", "1">>
      [] m = <<"A", "+", "1">> -> <<"0", "1", "1", "0", "1", "1", "1">>
      [] m = <<"M", "+", "1">> -> <<"1", "1", "1", "0", "1", "1", "1">>
      [] m = <<"D", "-", "1">> -> <<"0", "0", "0", "1", "1", "1", "0">>
      [] m = <<"A", "-", "1">> -> <<"0", "1", "1", "0", "0", "1", "0">>
      [] m = <<"M", "-", "1">> -> <<"1", "1", "1", "0", "0", "1", "0">>
      [] m = <<"D", "+", "A">> -> <<"0", "0", "0", "0", "0", "1", "0">>
      [] m = <<"D", "+", "M">> -> <<"1", "0", "0", "0", "0", "1", "0">>
      [] m = <<"D", "-", "A">> -> <<"0", "0", "1", "0", "0", "1", "1">>
      [] m = <<"D", "-", "M">> -> <<"1", "0", "1", "0", "0", "1", "1">>
      [] m = <<"A", "-", "D">> -> <<"0", "0", "0", "0", "1", "1", "1">>
      [] m = <<"M", "-", "D">> -> <<"1", "0", "0", "0", "1", "1", "1">>
      [] m = <<"D", "&", "A">> -> <<"0", "0", "0", "0", "0", "0", "0">>
      [] m = <<"D", "&", "M">> -> <<"1", "0", "0", "0", "0", "0", "0">>
      [] m = <<"D", "|", "A">> -> <<"0", "0", "1", "0", "1", "0", "1">>
      [] m = <<"D", "|", "M">> -> <<"1", "0", "1", "0", "1", "0", "1">>

TableDest(m) ==
    CASE m = <<>> -> <<"0", "0", "0">>
      [] m = <<"M">> -> <<"0", "0", "1">>
      [] m = <<"D">> -> <<"0", "1", "0">>
      [] m = <<"M", "D">> -> <<"0", "1", "1">>
      [] m = <<"A">> -> <<"1", "0", "0">>
      [] m = <<"A", "M">> -> <<"1", "0", "1">>
      [] m = <<"A", "D">> -> <<"1", "1", "0">>
      [] m = <<"A", "M", "D">> -> <<"1", "1", "1">>

TableJump(m) ==
    CASE m = <<>> -> <<"0", "0", "0">>
      [] m = <<"J", "G", "T">> -> <<"0", "0", "1">>
      [] m = <<"J", "E", "Q">> -> <<"0", "1", "0">>
      [] m = <<"J", "G", "E">> -> <<"0", "1", "1">>
      [] m = <<"J", "L", "T">> -> <<"1", "0", "0">>
      [] m = <<"J", "N", "E">> -> <<"1", "0", "1">>
      [] m = <<"J", "L", "E">> -> <<"1", "1", "0">>
      [] m = <<"J", "M", "P">> -> <<"1", "1", "1">>

\* every compute instruction text with the 16 bits the tables give it
TableEncodings ==
    {<<CLine(d, c, j),
       <<"1", "1", "1">> \o TableComp(c) \o TableDest(d) \o TableJump(j)>> :
        d \in DestMnemonics, c \in CompMnemonics, j \in JumpMnemonics}

\* C9: for every computation, destination and jump mnemonic, the line written
\* for the compute instruction is 111, the selector bit, the six function
\* bits, the destination code and the jump code of the tables, whatever lines
\* were encoded before it and whatever the symbol table holds.
C9_ComputeEncoding ==
    (/\ pc = "done"
     /\ input # <<>>
     /\ input[Len(input)] \in CInstrPool)
        => /\ output # <<>>
           /\ <<input[Len(input)], output[Len(output)]>> \in TableEncodings

\* AMD=D|M;JMP encoded after a symbolic reference that allocated a variable
C9_Witness ==
    /\ pc = "done"
    /\ variables # EmptyMap
    /\ Len(output) = 2
    /\ input[Len(input)] = <<"A", "M", "D", "=", "D", "|", "M", ";", "J", "M", "P">>
    /\ output[2] = 
         <<"1", "1", "1", "1", "0", "1", "0", "1", "0", "1", "1", "1", "1", "1", "1", "1">>

\* ------------------------------------------------------------------------
\* C10
\* ------------------------------------------------------------------------
\* every variable address is at least 16 and no two names share an address
VariablesDistinct ==
    \A n \in DOMAIN variables :
        /\ variables[n] >= 16
        /\ \A m \in DOMAIN variables : variables[m] = variables[n] => m = n

\* a step keeps every variable at its address, and gives a new variable an
\* address above all addresses held before
AllocationStep ==
    /\ \A n \in DOMAIN variables :
         n \in DOMAIN variables' /\ variables'[n] = variables[n]
    /\ \A n \in (DOMAIN variables') \ (DOMAIN variables) :
         \A m \in DOMAIN variables : variables'[n] > variables[m]

\* C10: variable allocation is monotonic and irreversible: an assigned address
\* is never changed or removed, every address is at least 16, each new address
\* exceeds all earlier ones, and distinct names never share an address.
C10_MonotonicAllocation == []VariablesDistinct /\ [][AllocationStep]_vars

\* a variable referenced twice and then a second variable allocated
C10_Witness ==
    /\ pc = "done"
    /\ Cardinality(DOMAIN variables) = 2
    /\ \E i, j, k \in 1..Len(lines) :
         /\ i < j /\ j < k
         /\ lines[i].kind = "ALocation"
         /\ lines[j] = lines[i]
         /\ lines[k].kind = "ALocation"
         /\ lines[k].name # lines[i].name
         /\ {lines[i].name, lines[k].name} \subseteq DOMAIN variables

====
